---- MODULE Spec2Model ----
(***************************************************************************)
(* Node.js favicon service (src/server.js): the per-request join barrier   *)
(* of the cold resolution (returned / expected / htmlLoaded), payload      *)
(* deduplication, the scratch-write / conversion fan-out, and the on-disk  *)
(* host cache with its TTL check and best-fit lookup.                      *)
(*                                                                         *)
(* Every asynchronous callback of the source is one action.  All requests  *)
(* of a behaviour name the same host, so they share one cache directory    *)
(* and one set of scratch files.  Payloads are small integers (0 = no      *)
(* data); a converted file holds the payload it was produced from.         *)
(***************************************************************************)
EXTENDS Integers, Sequences, FiniteSets, TLC

\* ------------------------------------------------------------------ bounds
MaxHtml == 1
MaxTicks == 1
MaxHops == 1
MaxRepeats == 1
MaxFaults == 2

\* ------------------------------------------------------- program constants
CACHE_TTL == 3 * 24 * 60 * 60 * 1000
RETURN_DEFAULT == FALSE
DefaultSize == 16
InitialExpected == 3
InitialBestFitDifference == -100000

\* ------------------------------------------------------------- environment
Day == 24 * 60 * 60 * 1000
TickMs == CACHE_TTL + Day
StartTime == 10 * Day
\* request slots; a specification's Init says which of them receive a request
Reqs == {1, 2}
\* the distinct byte strings a fetch can return
Payloads == {1, 2}
NoData == 0
Null == <<>>
Widths == {16, 32}
Sizes == {16, 32}
\* the pixel width ImageMagick reports (%w) for a payload
WidthOf(p) == IF p % 2 = 1 THEN 16 ELSE 32
Indexes == 0..(Cardinality(Payloads) - 1)
FileNames == Indexes \X Widths

VARIABLES
  now,          \* (new Date()).getTime()
  crashed,      \* an uncaught exception ended the process
  faults,       \* file-system / conversion failures the environment may still inject
  dirExists,    \* favicons/<host>/ exists
  dirMtime,     \* its modification time
  files,        \* favicons/<host>/<j>.<w>.png -> content (NoData: no such file)
  tmp,          \* favicons/tmp/<host>-tmp-<j>.ico -> content
  pc,           \* where the request's cache check stands
  size,         \* requested size
  expires,      \* now - CACHE_TTL of the request
  returned, expected, htmlLoaded, converted, stored, favicons,
  statics,      \* getRootFavicon fetches not yet called back
  html,         \* getHTML outstanding
  derived,      \* HTML-derived getFavicon fetches not yet called back
  hops,         \* redirects followed by the request's fetches
  writes,       \* fs.writeFile calls of saveFavicon not yet called back
  convs,        \* imagemagick.convert calls not yet called back
  listings,     \* fs.readdir calls of the post-conversion lookup not yet called back
  loads,        \* fs.readFile calls of loadIcon not yet called back
  ended,        \* number of response.end calls
  body,         \* the body the first response.end sent
  hist,         \* per-request observations used by the properties
  probe         \* the input handed to a function studied on its own, and its result

vars == <<now, crashed, faults, dirExists, dirMtime, files, tmp, pc, size, expires,
          returned, expected, htmlLoaded, converted, stored, favicons,
          statics, html, derived, hops, writes, convs, listings, loads,
          ended, body, hist, probe>>

fsVars == <<dirExists, dirMtime, files, tmp>>
joinVars == <<returned, expected, htmlLoaded, stored, favicons>>
fetchVars == <<statics, html, derived, hops>>

\* ------------------------------------------------------------------ helpers
EmptyBody == <<"empty", NoData>>
DefaultBody == <<"default", NoData>>
NotEnded == <<"none", NoData>>
PngBody(p) == <<"png", p>>

\* pending asynchronous calls are kept as multisets: how many calls with the
\* same arguments have not called back yet
NoCalls(D) == [x \in D |-> 0]
Pending(b) == {x \in DOMAIN b : b[x] > 0}
RECURSIVE SumOver(_, _)
SumOver(b, S) == IF S = {} THEN 0 ELSE LET x == CHOOSE y \in S : TRUE IN b[x] + SumOver(b, S \ {x})
Count(b) == SumOver(b, DOMAIN b)
\* arguments of a scratch write / conversion: <<index of the favicon, the
\* closure's j when the callback runs>>
Jobs == Indexes \X Indexes
Loadable == FileNames \cup {Null}

\* all orders in which fs.readdir may list the set S of file names
Listings(S) ==
  {q \in [1..Cardinality(S) -> S] : \A a, b \in 1..Cardinality(S) : a # b => q[a] # q[b]}

Present == {f \in FileNames : files[f] # NoData}

\* response.end(b): only the first call determines the body sent
EndResponse(r, b) ==
  /\ ended' = [ended EXCEPT ![r] = @ + 1]
  /\ body' = IF ended[r] = 0 THEN [body EXCEPT ![r] = b] ELSE body

sendIconBody == PngBody(1)

\* sendEmpty(response)
sendEmptyBody == IF RETURN_DEFAULT THEN DefaultBody ELSE EmptyBody

Note(r, field, v) == [hist EXCEPT ![r][field] = v]
Bump(r, field) == [hist EXCEPT ![r][field] = @ + 1]

\* --------------------------------------------------- best-fit scan (pure)
\* the loop of getBestFromCache over the listing `fs`, from entry i, with the
\* running bestFit / bestFitDifference; the result is [exact, bestFit]
RECURSIVE BestScanNoSkip(_, _, _, _, _)
BestScanNoSkip(fs, sz, i, bestFit, bestFitDifference) ==
  IF i > Len(fs) THEN [exact |-> Null, bestFit |-> bestFit]
  ELSE LET file == fs[i]
           difference == file[2] - sz
       IN IF sz = file[2] THEN [exact |-> file, bestFit |-> bestFit]
          ELSE IF difference > bestFitDifference
               THEN BestScanNoSkip(fs, sz, i + 1, file, difference)
          ELSE BestScanNoSkip(fs, sz, i + 1, bestFit, bestFitDifference)

RECURSIVE BestScan(_, _, _, _, _)
BestScan(fs, sz, i, bestFit, bestFitDifference) ==
  IF i > Len(fs) THEN [exact |-> Null, bestFit |-> bestFit]
  ELSE LET file == fs[i]
           width == file[2]
           difference == width - sz
       IN IF sz = width THEN [exact |-> file, bestFit |-> bestFit]
          ELSE IF difference > bestFitDifference /\ bestFitDifference > 0
               THEN BestScan(fs, sz, i + 1, bestFit, bestFitDifference)
          ELSE IF difference > bestFitDifference
               THEN BestScan(fs, sz, i + 1, file, difference)
          ELSE BestScan(fs, sz, i + 1, bestFit, bestFitDifference)

BestFileFirst(fs, sz) == IF fs = <<>> THEN Null ELSE fs[1]

\* the file getBestFromCache hands to loadIcon for listing fs (Null: none, the
\* path "<folder>null" is read)
BestFile(fs, sz) ==
  LET res == BestScan(fs, sz, 1, Null, InitialBestFitDifference)
  IN IF res.exact # Null THEN res.exact ELSE res.bestFit

\* -------------------------------------------------------------------- Init
StaleTime == StartTime - CACHE_TTL - Day

\* cache directories a previous run of the service can have left behind
InitFiles ==
  {f \in [FileNames -> Payloads \cup {NoData}] :
     \A n \in FileNames : f[n] # NoData => (n[1] = 0 /\ WidthOf(f[n]) = n[2])}

NoHist ==
  [completions |-> 0, cold |-> 0, fetchCalls |-> 0, writeCalls |-> 0,
   convCalls |-> 0, lookups |-> 0, hit |-> FALSE, retAtDone |-> 0,
   staticsAtDone |-> 0, derivedAtDone |-> 0, pendingAtLookup |-> 0,
   convFailed |-> 0, writeFailed |-> 0, html |-> 0,
   gotData |-> FALSE, skipped |-> FALSE, fresh |-> FALSE, unreadable |-> FALSE,
   at |-> 0, repeats |-> 0, prevBody |-> NotEnded, emptyDone |-> FALSE]

\* the state when the service has started and no request has arrived
Started ==
  /\ now = StartTime
  /\ crashed = FALSE
  /\ dirExists \in BOOLEAN
  /\ dirMtime \in {StaleTime, StartTime}
  /\ files \in InitFiles
  /\ ~dirExists => (dirMtime = StaleTime /\ Present = {})
  /\ tmp = [j \in Indexes |-> NoData]
  /\ pc = [r \in Reqs |-> IF r = 1 THEN "idle" ELSE "off"]
  /\ size = [r \in Reqs |-> DefaultSize]
  /\ expires = [r \in Reqs |-> 0]
  /\ returned = [r \in Reqs |-> 0]
  /\ expected = [r \in Reqs |-> InitialExpected]
  /\ htmlLoaded = [r \in Reqs |-> FALSE]
  /\ converted = [r \in Reqs |-> 0]
  /\ stored = [r \in Reqs |-> 0]
  /\ favicons = [r \in Reqs |-> <<>>]
  /\ statics = [r \in Reqs |-> 0]
  /\ html = [r \in Reqs |-> FALSE]
  /\ derived = [r \in Reqs |-> 0]
  /\ hops = [r \in Reqs |-> 0]
  /\ writes = [r \in Reqs |-> NoCalls(Jobs)]
  /\ convs = [r \in Reqs |-> NoCalls(Jobs)]
  /\ listings = [r \in Reqs |-> 0]
  /\ loads = [r \in Reqs |-> NoCalls(Loadable)]
  /\ ended = [r \in Reqs |-> 0]
  /\ body = [r \in Reqs |-> NotEnded]
  /\ hist = [r \in Reqs |-> NoHist]

\* no scan is run on its own while requests are served
NoProbe == [listing |-> <<>>, size |-> DefaultSize, scanned |-> FALSE, file |-> Null]

Init == Started /\ faults = MaxFaults /\ probe = NoProbe

\* ------------------------------------------------------------ environment
\* no callback of request r is outstanding
Quiescent(r) ==
  /\ pc[r] \in {"off", "idle", "self", "hit", "cold"}
  /\ statics[r] = 0 /\ ~html[r] /\ derived[r] = 0
  /\ Pending(writes[r]) = {} /\ Pending(convs[r]) = {}
  /\ listings[r] = 0 /\ Pending(loads[r]) = {}

\* the environment makes a file-system call or a conversion fail (fail), at
\* most MaxFaults times
Inject(fail) ==
  /\ fail => faults > 0
  /\ faults' = IF fail THEN faults - 1 ELSE faults

\* time passes; a tick is longer than CACHE_TTL and no request is in flight
\* that long
Tick ==
  /\ ~crashed
  /\ \A r \in Reqs : Quiescent(r)
  /\ now < StartTime + MaxTicks * TickMs
  /\ now' = now + TickMs
  /\ UNCHANGED <<probe, crashed, faults, fsVars, pc, size, expires, joinVars, converted,
                 fetchVars, writes, convs, listings, loads, ended, body, hist>>

\* ----------------------------------------------------------- cache lookup
\* retrieveAllFavicons(): three getRootFavicon calls and getHTML
\* (h: the observations of the calling callback)
RetrieveAllFavicons(r, h) ==
  /\ pc' = [pc EXCEPT ![r] = "cold"]
  /\ statics' = [statics EXCEPT ![r] = InitialExpected]
  /\ html' = [html EXCEPT ![r] = TRUE]
  /\ hist' = [h EXCEPT ![r].cold = @ + 1,
                       ![r].fetchCalls = @ + InitialExpected + 1]

\* the body of the fs.readdir callback of getBestFromCache for a listing
\* that was read: loadIcon of the exact or best fit; sendEmpty first when
\* there is none
GetBestFromCache(r, listing) ==
  LET file == BestFile(listing, size[r])
  IN /\ loads' = [loads EXCEPT ![r][file] = @ + 1]
     /\ IF file = Null
        THEN EndResponse(r, sendEmptyBody)
        ELSE UNCHANGED <<ended, body>>

\* the request handler up to fs.exists
Request(r) ==
  /\ ~crashed
  /\ pc[r] = "idle"
  /\ \A q \in Reqs : q < r => pc[q] # "idle"
  /\ \E self \in BOOLEAN, sz \in Sizes :
       IF self
       THEN /\ sz = DefaultSize
            /\ pc' = [pc EXCEPT ![r] = "self"]
            /\ EndResponse(r, sendEmptyBody)
            /\ UNCHANGED size
       ELSE /\ pc' = [pc EXCEPT ![r] = "exists"]
            /\ size' = [size EXCEPT ![r] = sz]
            /\ UNCHANGED <<ended, body>>
  /\ hist' = [hist EXCEPT ![r].at = now]
  /\ UNCHANGED <<probe, now, crashed, faults, fsVars, expires, joinVars, converted, fetchVars,
                 writes, convs, listings, loads>>

\* callback of fs.exists(cacheDir)
ExistsCallback(r) ==
  /\ ~crashed
  /\ pc[r] = "exists"
  /\ IF ~dirExists
     THEN /\ pc' = [pc EXCEPT ![r] = "mkdir"]
          /\ UNCHANGED expires
     ELSE /\ expires' = [expires EXCEPT ![r] = now - CACHE_TTL]
          /\ pc' = [pc EXCEPT ![r] =
                      IF now - CACHE_TTL # 0 THEN "stat" ELSE "readdir"]
  /\ UNCHANGED <<probe, now, crashed, faults, fsVars, size, joinVars, converted, fetchVars,
                 writes, convs, listings, loads, ended, body, hist>>

\* callback of fs.mkdir(cacheDir): its error is ignored
MkdirCallback(r) ==
  /\ ~crashed
  /\ pc[r] = "mkdir"
  /\ \E ok \in BOOLEAN :
       /\ Inject(~ok)
       /\ IF ok /\ ~dirExists
          THEN /\ dirExists' = TRUE
               /\ dirMtime' = now
          ELSE UNCHANGED <<dirExists, dirMtime>>
       /\ RetrieveAllFavicons(r, hist)
  /\ UNCHANGED <<probe, now, crashed, files, tmp, size, expires, joinVars, converted,
                 derived, hops, writes, convs, listings, loads, ended, body>>

MissAlways(error, mtime, exp) == TRUE

MissOnErrorOnly(error, mtime, exp) == error

\* the two early returns of the fs.stat callback: stat failed, or the
\* directory is older than expires
Miss(error, mtime, exp) == error \/ mtime < exp

\* callback of fs.stat(foldername) in serveFromCache
StatCallback(r) ==
  /\ ~crashed
  /\ pc[r] = "stat"
  /\ \E error \in BOOLEAN :
       LET h == [hist EXCEPT ![r].fresh = ~error /\ dirMtime >= expires[r]]
       IN /\ Inject(error)
          /\ IF Miss(error, dirMtime, expires[r])
             THEN /\ RetrieveAllFavicons(r, h)
             ELSE /\ pc' = [pc EXCEPT ![r] = "readdir"]
                  /\ hist' = h
                  /\ UNCHANGED <<statics, html>>
  /\ UNCHANGED <<probe, now, crashed, fsVars, size, expires, joinVars, converted,
                 derived, hops, writes, convs, listings, loads, ended, body>>

\* callback of fs.readdir(foldername) of the first lookup (cb is
\* retrieveAllFavicons)
ReaddirCallback(r) ==
  /\ ~crashed
  /\ pc[r] = "readdir"
  /\ \E err \in BOOLEAN :
       /\ Inject(err)
       /\ IF err
          THEN /\ RetrieveAllFavicons(r, [hist EXCEPT ![r].unreadable = TRUE])
               /\ UNCHANGED <<loads, ended, body>>
          ELSE /\ \E listing \in Listings(Present) : GetBestFromCache(r, listing)
               /\ pc' = [pc EXCEPT ![r] = "hit"]
               /\ hist' = [hist EXCEPT ![r].hit = TRUE]
               /\ UNCHANGED <<statics, html>>
  /\ UNCHANGED <<probe, now, crashed, fsVars, size, expires, joinVars, converted,
                 derived, hops, writes, convs, listings>>

\* callback of fs.readdir(foldername) of the lookup after the conversions
\* (serveFromCache(foldername, host): cb is undefined)
ListingCallback(r) ==
  /\ ~crashed
  /\ listings[r] > 0
  /\ listings' = [listings EXCEPT ![r] = @ - 1]
  /\ \E err \in BOOLEAN :
       /\ Inject(err)
       /\ IF err
          THEN /\ crashed' = TRUE
               /\ UNCHANGED <<loads, ended, body>>
          ELSE /\ \E listing \in Listings(Present) : GetBestFromCache(r, listing)
               /\ UNCHANGED crashed
  /\ UNCHANGED <<probe, now, fsVars, pc, size, expires, joinVars, converted,
                 fetchVars, writes, convs, hist>>

\* callback of fs.readFile(file) in loadIcon
LoadCallback(r) ==
  /\ ~crashed
  /\ \E file \in Pending(loads[r]), ok \in BOOLEAN :
       LET there == file # Null /\ files[file] # NoData
       IN /\ ~there => ~ok
          /\ Inject(there /\ ~ok)
          /\ loads' = [loads EXCEPT ![r][file] = @ - 1]
          /\ IF ok
             THEN EndResponse(r, PngBody(files[file]))
             ELSE EndResponse(r, sendEmptyBody)
  /\ UNCHANGED <<probe, now, crashed, fsVars, pc, size, expires, joinVars, converted,
                 fetchVars, writes, convs, listings, hist>>

\* ------------------------------------------------------- cold resolution
KnownNever(favs, nf) == FALSE

\* the dedup loop of done: newFavicon.data.compare(favicon.data) == 0 for
\* some favicon already in the list
Known(favs, nf) == \E i \in 1..Len(favs) : favs[i] = nf

PushUnchecked(favs, nf) == ~Known(favs, nf)

\* whether done appends newFavicon: it is defined and not yet known
Push(favs, nf) == nf # NoData /\ ~Known(favs, nf)

CompleteOnEquality(ret, exp, loaded) == ret = exp /\ loaded

\* the completion predicate of done
Complete(ret, exp, loaded) == ret >= exp /\ loaded

\* the fs.writeFile calls the completion branch of done issues: one per
\* favicon, index j; the closure's j is the last index once the loop is over
SaveAll(favs) == {job \in Jobs : job[1] < Len(favs) /\ job[2] = Len(favs) - 1}

\* done(newFavicon), called with expected = exp and htmlLoaded = loaded while
\* pendS root and pendD HTML-derived fetches have not called back
done(r, nf, exp, loaded, pendS, pendD) ==
  LET ret == returned[r] + 1
      push == Push(favicons[r], nf)
      favs == IF push THEN Append(favicons[r], nf) ELSE favicons[r]
      st == IF push THEN stored[r] + 1 ELSE stored[r]
      h == [hist EXCEPT ![r].gotData = @ \/ nf # NoData,
                        ![r].skipped = @ \/ (nf # NoData /\ ~push)]
  IN /\ returned' = [returned EXCEPT ![r] = ret]
     /\ favicons' = [favicons EXCEPT ![r] = favs]
     /\ stored' = [stored EXCEPT ![r] = st]
     /\ IF Complete(ret, exp, loaded)
        THEN /\ IF st = 0
                THEN EndResponse(r, EmptyBody)
                ELSE UNCHANGED <<ended, body>>
             /\ writes' = [writes EXCEPT ![r] =
                            [job \in Jobs |-> @[job] + IF job \in SaveAll(favs) THEN 1 ELSE 0]]
             /\ hist' = [h EXCEPT ![r].completions = @ + 1,
                                  ![r].writeCalls = @ + Len(favs),
                                  ![r].emptyDone = @ \/ st = 0,
                                  ![r].retAtDone = ret,
                                  ![r].staticsAtDone = pendS,
                                  ![r].derivedAtDone = pendD]
        ELSE /\ hist' = h
             /\ UNCHANGED <<ended, body, writes>>

\* callback of getFavicon for one of the three root candidates
StaticCallback(r) ==
  /\ ~crashed
  /\ statics[r] > 0
  /\ statics' = [statics EXCEPT ![r] = @ - 1]
  /\ UNCHANGED <<html, derived, hops>>
  /\ \E data \in Payloads \cup {NoData} :
       done(r, data, expected[r], htmlLoaded[r], statics[r] - 1, derived[r])
  /\ UNCHANGED <<probe, now, crashed, faults, fsVars, pc, size, expires, expected, htmlLoaded,
                 converted, convs, listings, loads>>

\* callback of getFavicon for a candidate found in the HTML
DerivedCallback(r) ==
  /\ ~crashed
  /\ derived[r] > 0
  /\ derived' = [derived EXCEPT ![r] = @ - 1]
  /\ UNCHANGED <<statics, html, hops>>
  /\ \E data \in Payloads \cup {NoData} :
       done(r, data, expected[r], htmlLoaded[r], statics[r], derived[r] - 1)
  /\ UNCHANGED <<probe, now, crashed, faults, fsVars, pc, size, expires, expected, htmlLoaded,
                 converted, convs, listings, loads>>

\* a 301/302 answer to a getFavicon or getHTML request: the fetch is re-issued
Redirect(r) ==
  /\ ~crashed
  /\ statics[r] > 0 \/ derived[r] > 0 \/ html[r]
  /\ hops[r] < MaxHops
  /\ hops' = [hops EXCEPT ![r] = @ + 1]
  /\ hist' = [hist EXCEPT ![r].fetchCalls = @ + 1]
  /\ UNCHANGED <<probe, now, crashed, faults, fsVars, pc, size, expires, joinVars, converted,
                 statics, html, derived, writes, convs, listings, loads, ended, body>>

GrownNot(exp, k) == exp

\* expected += faviconURLs.length
Grown(exp, k) == exp + k

\* callback of getHTML: gotHtml is whether a non-empty body came back, k the
\* number of candidates parseFaviconURL finds in it
HtmlCallback(r) ==
  /\ ~crashed
  /\ html[r]
  /\ html' = [html EXCEPT ![r] = FALSE]
  /\ htmlLoaded' = [htmlLoaded EXCEPT ![r] = TRUE]
  /\ UNCHANGED <<statics, hops>>
  /\ \E gotHtml \in BOOLEAN, k \in 0..MaxHtml :
       /\ ~gotHtml => k = 0
       /\ IF gotHtml /\ k > 0
          THEN /\ expected' = [expected EXCEPT ![r] = Grown(@, k)]
               /\ derived' = [derived EXCEPT ![r] = k]
               /\ hist' = [hist EXCEPT ![r].fetchCalls = @ + k, ![r].html = k]
               /\ UNCHANGED <<returned, favicons, stored, writes, ended, body>>
          ELSE /\ done(r, NoData, expected[r], TRUE, statics[r], derived[r])
               /\ UNCHANGED <<expected, derived>>
  /\ UNCHANGED <<probe, now, crashed, faults, fsVars, pc, size, expires, converted, convs,
                 listings, loads>>

\* callback of fs.writeFile in saveFavicon; on success convertFn runs and
\* calls imagemagick.convert
WriteCallback(r) ==
  /\ ~crashed
  /\ \E job \in Pending(writes[r]), err \in BOOLEAN :
          /\ Inject(err)
          /\ writes' = [writes EXCEPT ![r][job] = @ - 1]
          /\ IF err
             THEN /\ hist' = [hist EXCEPT ![r].writeFailed = @ + 1]
                  /\ UNCHANGED <<tmp, convs>>
             ELSE /\ tmp' = [tmp EXCEPT ![job[1]] = favicons[r][job[1] + 1]]
                  /\ convs' = [convs EXCEPT ![r][job] = @ + 1]
                  /\ hist' = [hist EXCEPT ![r].convCalls = @ + 1]
  /\ UNCHANGED <<probe, now, crashed, dirExists, dirMtime, files, pc, size, expires,
                 joinVars, converted, fetchVars, listings, loads, ended, body>>

\* whether the join of the convert callback is reached: converted == stored
Joined(conv, st) == conv = st

\* callback of imagemagick.convert: the output <out>.<width>.png appears in
\* the host's directory unless the conversion failed
ConvertCallback(r) ==
  /\ ~crashed
  /\ \E job \in Pending(convs[r]), err \in BOOLEAN :
       LET data == tmp[job[1]]
           file == <<job[2], WidthOf(data)>>
           looked == Joined(converted[r] + 1, stored[r])
       IN /\ ~dirExists => err
          /\ Inject(err /\ dirExists)
          /\ convs' = [convs EXCEPT ![r][job] = @ - 1]
          /\ converted' = [converted EXCEPT ![r] = @ + 1]
          /\ IF err
             THEN UNCHANGED <<files, dirMtime>>
             ELSE /\ files' = [files EXCEPT ![file] = data]
                  /\ dirMtime' = IF files[file] = NoData THEN now ELSE dirMtime
          /\ listings' = [listings EXCEPT ![r] = IF looked THEN @ + 1 ELSE @]
          /\ hist' = [hist EXCEPT
                        ![r].convFailed = IF err THEN @ + 1 ELSE @,
                        ![r].lookups = IF looked THEN @ + 1 ELSE @,
                        ![r].pendingAtLookup =
                           IF looked THEN Count(convs[r]) - 1 ELSE @]
  /\ UNCHANGED <<probe, now, crashed, dirExists, tmp, pc, size, expires, joinVars,
                 fetchVars, writes, loads, ended, body>>

\* ------------------------------------------------------------ specification
Next ==
  \/ Tick
  \/ \E r \in Reqs : Request(r)
  \/ \E r \in Reqs : ExistsCallback(r)
  \/ \E r \in Reqs : MkdirCallback(r)
  \/ \E r \in Reqs : StatCallback(r)
  \/ \E r \in Reqs : ReaddirCallback(r)
  \/ \E r \in Reqs : ListingCallback(r)
  \/ \E r \in Reqs : LoadCallback(r)
  \/ \E r \in Reqs : StaticCallback(r)
  \/ \E r \in Reqs : DerivedCallback(r)
  \/ \E r \in Reqs : Redirect(r)
  \/ \E r \in Reqs : HtmlCallback(r)
  \/ \E r \in Reqs : WriteCallback(r)
  \/ \E r \in Reqs : ConvertCallback(r)

Spec == Init /\ [][Next]_vars

\* every callback that is outstanding is eventually delivered: the event loop
\* runs each of them, GETs time out after TIMEOUT, file-system calls and
\* conversions report success or failure
Fairness ==
  /\ WF_vars(\E r \in Reqs : ExistsCallback(r))
  /\ WF_vars(\E r \in Reqs : MkdirCallback(r))
  /\ WF_vars(\E r \in Reqs : StatCallback(r))
  /\ WF_vars(\E r \in Reqs : ReaddirCallback(r))
  /\ WF_vars(\E r \in Reqs : ListingCallback(r))
  /\ WF_vars(\E r \in Reqs : LoadCallback(r))
  /\ WF_vars(\E r \in Reqs : StaticCallback(r))
  /\ WF_vars(\E r \in Reqs : DerivedCallback(r))
  /\ WF_vars(\E r \in Reqs : HtmlCallback(r))
  /\ WF_vars(\E r \in Reqs : WriteCallback(r))
  /\ WF_vars(\E r \in Reqs : ConvertCallback(r))

SpecFair == Spec /\ Fairness

\* the client repeats its request (same host, same size) once the previous
\* one was answered and has no callback left, before any time has passed: a
\* new run of the request handler, with the previous response kept for
\* comparison
Repeat(r) ==
  /\ ~crashed
  /\ pc[r] \in {"hit", "cold"}
  /\ Quiescent(r)
  /\ ended[r] >= 1
  /\ hist[r].repeats < MaxRepeats
  /\ now = hist[r].at
  /\ pc' = [pc EXCEPT ![r] = "exists"]
  /\ returned' = [returned EXCEPT ![r] = 0]
  /\ expected' = [expected EXCEPT ![r] = InitialExpected]
  /\ htmlLoaded' = [htmlLoaded EXCEPT ![r] = FALSE]
  /\ converted' = [converted EXCEPT ![r] = 0]
  /\ stored' = [stored EXCEPT ![r] = 0]
  /\ favicons' = [favicons EXCEPT ![r] = <<>>]
  /\ hops' = [hops EXCEPT ![r] = 0]
  /\ expires' = [expires EXCEPT ![r] = 0]
  /\ ended' = [ended EXCEPT ![r] = 0]
  /\ body' = [body EXCEPT ![r] = NotEnded]
  /\ hist' = [hist EXCEPT ![r] =
                [NoHist EXCEPT !.at = now, !.repeats = hist[r].repeats + 1,
                               !.prevBody = body[r]]]
  /\ UNCHANGED <<probe, now, crashed, faults, fsVars, size, statics, html, derived, writes,
                 convs, listings, loads>>

NextRepeat == Next \/ \E r \in Reqs : Repeat(r)

\* repeated requests are studied without injected failures
InitRepeat == Started /\ faults = 0 /\ probe = NoProbe

SpecRepeat == InitRepeat /\ [][NextRepeat]_vars

\* --------------------------------- the synchronous revision (src/unnamed/part_000)
\* part_000 is the earlier revision of server.js: the cache check, the scratch
\* writes and the lookup after the conversions are synchronous calls, whose
\* exceptions nothing catches.  getFavicon, its redirects and the scan of the
\* listing are the same code, so Redirect, BestFile and Tick are shared.
LegacyTtl == 24 * 60 * 60 * 1000

PresentIn(fl) == {f \in FileNames : fl[f] # NoData}

\* the environment makes none, one or both of two calls fail
InjectBoth(a, b) ==
  LET k == (IF a THEN 1 ELSE 0) + (IF b THEN 1 ELSE 0)
  IN /\ k <= faults
     /\ faults' = faults - k

\* the scan of serveFromCache for request size sz: loadIcon of the exact or
\* best fit; the default icon is sent first when there is none
GetBestFromCacheLegacy(r, listing, sz) ==
  LET file == BestFile(listing, sz)
  IN /\ loads' = [loads EXCEPT ![r][file] = @ + 1]
     /\ IF file = Null
        THEN EndResponse(r, DefaultBody)
        ELSE UNCHANGED <<ended, body>>

\* the request handler: path check, existsSync / mkdirSync, serveFromCache
\* with expires (readdirSync, statSync, scan), then the four fetches; err is
\* an exception thrown by mkdirSync, readdirSync or statSync
RequestLegacy(r) ==
  /\ ~crashed
  /\ pc[r] = "idle"
  /\ \A q \in Reqs : q < r => pc[q] # "idle"
  /\ \E self \in BOOLEAN, sz \in Sizes, err \in BOOLEAN :
       LET exp == now - LegacyTtl
           h == [hist EXCEPT ![r].at = now,
                             ![r].fresh = ~self /\ ~err /\ dirExists /\ dirMtime >= exp]
       IN /\ Inject(err)
          /\ crashed' = err
          /\ IF self
             THEN /\ sz = DefaultSize /\ ~err
                  /\ pc' = [pc EXCEPT ![r] = "self"]
                  /\ EndResponse(r, DefaultBody)
                  /\ hist' = h
                  /\ UNCHANGED <<dirExists, dirMtime, size, expires, statics, html, loads>>
             ELSE IF err
             THEN /\ sz = DefaultSize
                  /\ UNCHANGED <<dirExists, dirMtime, pc, size, expires, statics, html,
                                 loads, ended, body, hist>>
             ELSE IF ~dirExists
             THEN /\ dirExists' = TRUE
                  /\ dirMtime' = now
                  /\ size' = [size EXCEPT ![r] = sz]
                  /\ RetrieveAllFavicons(r, h)
                  /\ UNCHANGED <<expires, loads, ended, body>>
             ELSE IF dirMtime < exp
             THEN /\ size' = [size EXCEPT ![r] = sz]
                  /\ expires' = [expires EXCEPT ![r] = exp]
                  /\ RetrieveAllFavicons(r, h)
                  /\ UNCHANGED <<dirExists, dirMtime, loads, ended, body>>
             ELSE /\ size' = [size EXCEPT ![r] = sz]
                  /\ expires' = [expires EXCEPT ![r] = exp]
                  /\ pc' = [pc EXCEPT ![r] = "hit"]
                  /\ \E listing \in Listings(Present) :
                       GetBestFromCacheLegacy(r, listing, sz)
                  /\ hist' = [h EXCEPT ![r].hit = TRUE]
                  /\ UNCHANGED <<dirExists, dirMtime, statics, html>>
  /\ UNCHANGED <<probe, now, files, tmp, joinVars, converted, derived, hops, writes, convs,
                 listings>>

\* callback of fs.readFile(file) in loadIcon
LoadCallbackLegacy(r) ==
  /\ ~crashed
  /\ \E file \in Pending(loads[r]), ok \in BOOLEAN :
       LET there == file # Null /\ files[file] # NoData
       IN /\ ~there => ~ok
          /\ Inject(there /\ ~ok)
          /\ loads' = [loads EXCEPT ![r][file] = @ - 1]
          /\ IF ok
             THEN EndResponse(r, PngBody(files[file]))
             ELSE EndResponse(r, EmptyBody)
  /\ UNCHANGED <<probe, now, crashed, fsVars, pc, size, expires, joinVars, converted,
                 fetchVars, writes, convs, listings, hist>>

\* the conversions the completion branch starts: favicon i is written to
\* scratch file i and converted to output index i
ConvertAll(favs) == {job \in Jobs : job[1] < Len(favs) /\ job[2] = job[1]}

\* done(newFavicon) of part_000; werr is an exception thrown by a
\* writeFileSync of the loop, which ends the process
doneLegacy(r, nf, exp, loaded, pendS, pendD) ==
  LET ret == returned[r] + 1
      push == Push(favicons[r], nf)
      favs == IF push THEN Append(favicons[r], nf) ELSE favicons[r]
      st == IF push THEN stored[r] + 1 ELSE stored[r]
      h == [hist EXCEPT ![r].gotData = @ \/ nf # NoData,
                        ![r].skipped = @ \/ (nf # NoData /\ ~push)]
  IN /\ returned' = [returned EXCEPT ![r] = ret]
     /\ favicons' = [favicons EXCEPT ![r] = favs]
     /\ stored' = [stored EXCEPT ![r] = st]
     /\ IF Complete(ret, exp, loaded)
        THEN \E werr \in BOOLEAN :
               /\ werr => Len(favs) > 0
               /\ Inject(werr)
               /\ crashed' = werr
               /\ IF st = 0
                  THEN EndResponse(r, EmptyBody)
                  ELSE UNCHANGED <<ended, body>>
               /\ IF werr
                  THEN UNCHANGED <<tmp, convs>>
                  ELSE /\ tmp' = [j \in Indexes |->
                                    IF j < Len(favs) THEN favs[j + 1] ELSE tmp[j]]
                       /\ convs' = [convs EXCEPT ![r] =
                                      [job \in Jobs |->
                                         @[job] + IF job \in ConvertAll(favs) THEN 1 ELSE 0]]
               /\ hist' = [h EXCEPT ![r].completions = @ + 1,
                                    ![r].writeCalls = @ + Len(favs),
                                    ![r].convCalls = @ + IF werr THEN 0 ELSE Len(favs),
                                    ![r].emptyDone = @ \/ st = 0,
                                    ![r].retAtDone = ret,
                                    ![r].staticsAtDone = pendS,
                                    ![r].derivedAtDone = pendD]
        ELSE /\ hist' = h
             /\ UNCHANGED <<crashed, faults, tmp, convs, ended, body>>

\* callback of getFavicon for one of the three root candidates
StaticCallbackLegacy(r) ==
  /\ ~crashed
  /\ statics[r] > 0
  /\ statics' = [statics EXCEPT ![r] = @ - 1]
  /\ UNCHANGED <<html, derived, hops>>
  /\ \E data \in Payloads \cup {NoData} :
       doneLegacy(r, data, expected[r], htmlLoaded[r], statics[r] - 1, derived[r])
  /\ UNCHANGED <<probe, now, dirExists, dirMtime, files, pc, size, expires, expected,
                 htmlLoaded, converted, writes, listings, loads>>

\* callback of getFavicon for a candidate found in the HTML
DerivedCallbackLegacy(r) ==
  /\ ~crashed
  /\ derived[r] > 0
  /\ derived' = [derived EXCEPT ![r] = @ - 1]
  /\ UNCHANGED <<statics, html, hops>>
  /\ \E data \in Payloads \cup {NoData} :
       doneLegacy(r, data, expected[r], htmlLoaded[r], statics[r], derived[r] - 1)
  /\ UNCHANGED <<probe, now, dirExists, dirMtime, files, pc, size, expires, expected,
                 htmlLoaded, converted, writes, listings, loads>>

\* callback of getHTML
HtmlCallbackLegacy(r) ==
  /\ ~crashed
  /\ html[r]
  /\ html' = [html EXCEPT ![r] = FALSE]
  /\ htmlLoaded' = [htmlLoaded EXCEPT ![r] = TRUE]
  /\ UNCHANGED <<statics, hops>>
  /\ \E gotHtml \in BOOLEAN, k \in 0..MaxHtml :
       /\ ~gotHtml => k = 0
       /\ IF gotHtml /\ k > 0
          THEN /\ expected' = [expected EXCEPT ![r] = Grown(@, k)]
               /\ derived' = [derived EXCEPT ![r] = k]
               /\ hist' = [hist EXCEPT ![r].fetchCalls = @ + k, ![r].html = k]
               /\ UNCHANGED <<returned, favicons, stored, crashed, faults, tmp, convs,
                              ended, body>>
          ELSE /\ doneLegacy(r, NoData, expected[r], TRUE, statics[r], derived[r])
               /\ UNCHANGED <<expected, derived>>
  /\ UNCHANGED <<probe, now, dirExists, dirMtime, files, pc, size, expires, converted,
                 writes, listings, loads>>

\* the 'error' handler of getHTML's request: it logs and never calls back
HtmlErrorLegacy(r) ==
  /\ ~crashed
  /\ html[r]
  /\ html' = [html EXCEPT ![r] = FALSE]
  /\ UNCHANGED <<probe, now, crashed, faults, fsVars, pc, size, expires, joinVars, converted,
                 statics, derived, hops, writes, convs, listings, loads, ended,
                 body, hist>>

\* callback of imagemagick.convert: converted++, return on err, otherwise the
\* join check and serveFromCache(foldername, host); rerr is an exception
\* thrown by its readdirSync
ConvertCallbackLegacy(r) ==
  /\ ~crashed
  /\ \E job \in Pending(convs[r]), err \in BOOLEAN, rerr \in BOOLEAN :
       LET data == tmp[job[1]]
           file == <<job[2], WidthOf(data)>>
           out == IF err THEN files ELSE [files EXCEPT ![file] = data]
           looked == ~err /\ Joined(converted[r] + 1, stored[r])
       IN /\ ~dirExists => err
          /\ rerr => looked
          /\ InjectBoth(err /\ dirExists, rerr)
          /\ crashed' = rerr
          /\ convs' = [convs EXCEPT ![r][job] = @ - 1]
          /\ converted' = [converted EXCEPT ![r] = @ + 1]
          /\ files' = out
          /\ dirMtime' = IF ~err /\ files[file] = NoData THEN now ELSE dirMtime
          /\ IF looked /\ ~rerr
             THEN \E listing \in Listings(PresentIn(out)) :
                    GetBestFromCacheLegacy(r, listing, size[r])
             ELSE UNCHANGED <<loads, ended, body>>
          /\ hist' = [hist EXCEPT
                        ![r].convFailed = IF err THEN @ + 1 ELSE @,
                        ![r].lookups = IF looked THEN @ + 1 ELSE @,
                        ![r].pendingAtLookup =
                           IF looked THEN Count(convs[r]) - 1 ELSE @]
  /\ UNCHANGED <<probe, now, dirExists, tmp, pc, size, expires, joinVars, fetchVars,
                 writes, listings>>

NextLegacy ==
  \/ Tick
  \/ \E r \in Reqs : RequestLegacy(r)
  \/ \E r \in Reqs : LoadCallbackLegacy(r)
  \/ \E r \in Reqs : StaticCallbackLegacy(r)
  \/ \E r \in Reqs : DerivedCallbackLegacy(r)
  \/ \E r \in Reqs : Redirect(r)
  \/ \E r \in Reqs : HtmlCallbackLegacy(r)
  \/ \E r \in Reqs : HtmlErrorLegacy(r)
  \/ \E r \in Reqs : ConvertCallbackLegacy(r)

SpecLegacy == Init /\ [][NextLegacy]_vars

\* ------------------------------------------------ the best-fit scan on its own
\* the scan of getBestFromCache applied to one listing and one requested size
MaxListing == 3
ScanWidths == {8, 16, 32, 48}
ScanFiles == {<<0, w>> : w \in ScanWidths}

\* what fs.readdir can return for a directory of up to MaxListing converted
\* files: every order of every set of file names
ScanListings ==
  UNION {{q \in [1..n -> ScanFiles] : \A a, b \in 1..n : a # b => q[a] # q[b]} :
           n \in 0..MaxListing}

Probes == [listing : ScanListings, size : Sizes, scanned : {FALSE}, file : {Null}]

InitScan == Started /\ ~dirExists /\ faults = 0 /\ probe \in Probes

Scan ==
  /\ ~probe.scanned
  /\ probe' = [probe EXCEPT !.scanned = TRUE,
                            !.file = BestFile(probe.listing, probe.size)]
  /\ UNCHANGED <<now, crashed, faults, fsVars, pc, size, expires, joinVars, converted,
                 fetchVars, writes, convs, listings, loads, ended, body, hist>>

NextScan == Scan

SpecScan == InitScan /\ [][NextScan]_vars

\* the entries of a listing, and whether one of them has the requested width
Entries(q) == {q[i] : i \in 1..Len(q)}
HasExact(q, sz) == \E i \in 1..Len(q) : q[i][2] = sz

\* ------------------------------------------------------- concurrent requests
\* a second request for the same host arrives while the first may still be
\* in flight
Arrive(r) ==
  /\ ~crashed
  /\ pc[r] = "off"
  /\ pc' = [pc EXCEPT ![r] = "idle"]
  /\ UNCHANGED <<probe, now, crashed, faults, fsVars, size, expires, joinVars, converted,
                 fetchVars, writes, convs, listings, loads, ended, body, hist>>

\* the host of the two requests serves one icon: every fetch that returns
\* data returns the same bytes
OneIcon == \A r \in Reqs : \A i \in 1..Len(favicons[r]) : favicons[r][i] = 1

StaticCallbackOneIcon(r) == StaticCallback(r) /\ OneIcon'

DerivedCallbackOneIcon(r) == DerivedCallback(r) /\ OneIcon'

NextPair ==
  \/ \E r \in Reqs : Arrive(r)
  \/ \E r \in Reqs : Request(r)
  \/ \E r \in Reqs : ExistsCallback(r)
  \/ \E r \in Reqs : MkdirCallback(r)
  \/ \E r \in Reqs : StatCallback(r)
  \/ \E r \in Reqs : ReaddirCallback(r)
  \/ \E r \in Reqs : ListingCallback(r)
  \/ \E r \in Reqs : LoadCallback(r)
  \/ \E r \in Reqs : StaticCallbackOneIcon(r)
  \/ \E r \in Reqs : DerivedCallbackOneIcon(r)
  \/ \E r \in Reqs : Redirect(r)
  \/ \E r \in Reqs : HtmlCallback(r)
  \/ \E r \in Reqs : WriteCallback(r)
  \/ \E r \in Reqs : ConvertCallback(r)

\* two requests in a short time (no tick) for a host that has no cache
\* directory yet, without injected failures
InitPair == Started /\ ~dirExists /\ faults = 0 /\ probe = NoProbe

SpecPair == InitPair /\ [][NextPair]_vars

\* ------------------------------------------- redirects of a candidate fetch
\* URLs are strings over a small alphabet, up to MaxUrl characters long
MaxUrl == 3
UrlChars == {"/", ":", "a", "A"}
Locations == UNION {[1..n -> UrlChars] : n \in 0..MaxUrl}
ProtocolOfRoot == <<"h", "t", "t", "p", ":">>
RootOrigin == ProtocolOfRoot \o <<"/", "/", "a">>

ToLowerCase(u) == [i \in 1..Len(u) |-> IF u[i] = "A" THEN "a" ELSE u[i]]

\* fixupUrl(url, root, protocol), applied to the hrefs found in the HTML
fixupUrl(url, root, protocol) ==
  IF Len(url) >= 1 /\ url[1] = "/"
  THEN IF Len(url) >= 2 /\ url[2] = "/"
       THEN protocol \o url
       ELSE root \o url
  ELSE url

\* the URL getFavicon requests for faviconObj.url = u: the first five
\* characters in lower case
RequestedUrl(u) ==
  LET n == IF Len(u) < 5 THEN Len(u) ELSE 5
  IN ToLowerCase(SubSeq(u, 1, n)) \o SubSeq(u, n + 1, Len(u))

Redirects == [location : Locations, followed : {FALSE}, url : {Null}]

InitUrl == Started /\ ~dirExists /\ faults = 0 /\ probe \in Redirects

\* a 301/302 answer to getFavicon: faviconObj.url = res.headers['location']
\* and getFavicon is called again
FollowRedirect ==
  /\ ~probe.followed
  /\ probe' = [probe EXCEPT !.followed = TRUE, !.url = RequestedUrl(probe.location)]
  /\ UNCHANGED <<now, crashed, faults, fsVars, pc, size, expires, joinVars, converted,
                 fetchVars, writes, convs, listings, loads, ended, body, hist>>

NextUrl == FollowRedirect

SpecUrl == InitUrl /\ [][NextUrl]_vars

\* ------------------------------------------------------------------ claims
Cold(r) == pc[r] = "cold"

\* C1: in a cold resolution done() enters its completion branch exactly once
\* per request, whatever the order of the callbacks: never a second time.
C1_CompletesOnce == \A r \in Reqs : hist[r].completions <= 1

\* C2: whenever done() enters the completion branch, returned equals the
\* final value of expected.
C2_ReturnedIsExpected ==
  \A r \in Reqs : hist[r].completions > 0 => hist[r].retAtDone = expected[r]

\* C3: when the HTML yields k >= 1 candidates, the completion branch is never
\* entered while one of the k HTML-derived fetches has not called back.
C3_DerivedAllReported ==
  \A r \in Reqs :
    (hist[r].html >= 1 /\ hist[r].completions > 0)
      => (hist[r].derivedAtDone = 0 /\ derived[r] = 0 /\ hist[r].staticsAtDone = 0)

C3_Witness ==
  \E r \in Reqs : hist[r].html >= 1 /\ hist[r].completions = 1 /\ stored[r] = 2

\* C4: the completion branch is never entered while one of the three root
\* candidate fetches has not called back.
C4_StaticsAllReported ==
  \A r \in Reqs : hist[r].completions > 0 => hist[r].staticsAtDone = 0

\* C5: the favicons list never holds two entries with identical payload bytes.
C5_NoDuplicates ==
  \A r \in Reqs : \A i, j \in 1..Len(favicons[r]) :
    i # j => favicons[r][i] # favicons[r][j]

C5_Witness ==
  \E r \in Reqs : hist[r].skipped /\ Len(favicons[r]) = 2 /\ returned[r] >= 3

\* C6: a request that finds the cache directory present, fresh (stat succeeds,
\* mtime >= now - CACHE_TTL) and readable never starts the cold resolution:
\* no getFavicon / getHTML call, no scratch write, no conversion.
C6_FreshHitNoFetch ==
  \A r \in Reqs :
    (hist[r].fresh /\ ~hist[r].unreadable)
      => /\ hist[r].cold = 0 /\ hist[r].fetchCalls = 0
         /\ hist[r].writeCalls = 0 /\ hist[r].convCalls = 0
         /\ statics[r] = 0 /\ ~html[r]

C6_Witness ==
  \E r \in Reqs :
    /\ hist[r].fresh /\ hist[r].hit /\ Quiescent(r)
    /\ ended[r] = 1 /\ body[r] = PngBody(2)

\* C7: a request repeated (same host, same size) after the first was answered
\* and within the TTL window triggers no outbound fetch and gets a body
\* identical to the first response.
C7_RepeatServedFromCache ==
  \A r \in Reqs :
    hist[r].repeats >= 1
      => /\ hist[r].cold = 0 /\ hist[r].fetchCalls = 0
         /\ ended[r] >= 1 => body[r] = hist[r].prevBody

\* C8: when the three root candidates come back without data and the HTML
\* gives no candidate, the request ends with an empty body, favicons stays
\* empty, and no scratch write and no conversion is ever started.
C8_AllFailedEmpty ==
  \A r \in Reqs :
    (Cold(r) /\ ~hist[r].gotData /\ hist[r].html = 0)
      => /\ favicons[r] = <<>> /\ stored[r] = 0
         /\ hist[r].writeCalls = 0 /\ hist[r].convCalls = 0
         /\ Pending(writes[r]) = {} /\ Pending(convs[r]) = {}
         /\ (statics[r] = 0 /\ ~html[r]) => (ended[r] >= 1 /\ body[r] = EmptyBody)

C8_Witness ==
  \E r \in Reqs :
    /\ Cold(r) /\ ~hist[r].gotData /\ hist[r].html = 0
    /\ statics[r] = 0 /\ ~html[r] /\ returned[r] = 4
    /\ ended[r] >= 1 /\ body[r] = EmptyBody

\* C9: with n >= 1 unique payloads the lookup after the conversions is invoked
\* only once every conversion dispatched for the request has reported back,
\* and at most once per request.
C9_LookupOnceAfterAll ==
  \A r \in Reqs :
    /\ hist[r].lookups <= 1
    /\ hist[r].lookups >= 1 => hist[r].pendingAtLookup = 0

\* C10: a failed conversion still counts toward the join, so once a request
\* with a failed conversion has no callback left, the lookup after the
\* conversions has been invoked.
C10_FailedConversionStillAnswered ==
  \A r \in Reqs :
    (~crashed /\ Quiescent(r) /\ hist[r].convFailed >= 1) => hist[r].lookups >= 1

\* C11: for a fixed set of cached widths without an exact match, the best-fit
\* scan chooses the same file for every order of the directory listing.
C11_OrderIndependent ==
  (probe.scanned /\ ~HasExact(probe.listing, probe.size))
    => \A q \in ScanListings :
         Entries(q) = Entries(probe.listing) => BestFile(q, probe.size) = probe.file

\* the request's fs.stat check is over (or there was none to make)
Checked(r) == pc[r] \in {"readdir", "hit", "cold"}

\* C12: when the directory is older than now - CACHE_TTL (or its stat fails)
\* the initial lookup is a miss whatever the directory holds: the listing is
\* not read, no cached file is served by that lookup, and retrieveAllFavicons
\* is started.
C12_StaleIsMiss ==
  \A r \in Reqs :
    (Checked(r) /\ ~hist[r].fresh)
      => /\ Cold(r) /\ hist[r].cold = 1 /\ ~hist[r].hit
         /\ hist[r].fetchCalls >= InitialExpected + 1
         /\ hist[r].lookups = 0
              => /\ Pending(loads[r]) = {}
                 /\ body[r] \in {NotEnded, EmptyBody}

C12_Witness ==
  \E r \in Reqs :
    /\ Cold(r) /\ faults = MaxFaults
    /\ expires[r] # 0 /\ dirMtime < expires[r]
    /\ files[<<0, size[r]>>] # NoData
    /\ statics[r] = InitialExpected /\ html[r]

\* C13: an unreadable cache directory is a miss and never a fatal error: the
\* initial lookup starts the cold resolution, and the lookup after the
\* conversions raises no exception.
C13_UnreadableIsMiss ==
  /\ ~crashed
  /\ \A r \in Reqs : hist[r].unreadable => (Cold(r) /\ hist[r].cold = 1)

\* C14: once done() has completed with zero unique payloads and ended the
\* response, the request performs no scratch write, no conversion and no
\* cache lookup, and the response is not ended again.
C14_EmptyCompletionStops ==
  \A r \in Reqs :
    hist[r].emptyDone
      => /\ hist[r].writeCalls = 0 /\ hist[r].convCalls = 0
         /\ hist[r].lookups = 0 /\ Pending(loads[r]) = {}
         /\ ended[r] = 1

\* the cold resolution of request r has started and has a callback left
InProgress(r) == Cold(r) /\ ~Quiescent(r)

\* C15: while one request's cold resolution for the host is in progress, no
\* other request for that host runs a resolution of its own or takes its
\* answer from the cache directory.
C15_OneResolutionPerHost ==
  \A r, q \in Reqs :
    (r # q /\ InProgress(r)) => (~InProgress(q) /\ pc[q] # "hit")

\* C16: a request for the service's own favicon.ico is answered at once with
\* the empty (or default) body and never reaches the cache check, the fetches,
\* a scratch write, a conversion or a lookup.
C16_OwnIconAnsweredAtOnce ==
  \A r \in Reqs :
    pc[r] = "self"
      => /\ ended[r] = 1 /\ body[r] \in {EmptyBody, DefaultBody}
         /\ Quiescent(r) /\ expires[r] = 0 /\ ~hist[r].hit
         /\ hist[r].cold = 0 /\ hist[r].fetchCalls = 0
         /\ hist[r].writeCalls = 0 /\ hist[r].convCalls = 0 /\ hist[r].lookups = 0

C16_Witness ==
  \E r \in Reqs : pc[r] = "self" /\ ended[r] = 1 /\ body[r] = EmptyBody /\ dirExists

\* C17: returned is the number of candidate fetches (root or HTML-derived)
\* that have called back: one increment per fetch completion, nothing else.
C17_ReturnedCountsFetches ==
  \A r \in Reqs :
    Cold(r) => returned[r] = (InitialExpected - statics[r]) + (hist[r].html - derived[r])

\* C18: the request is never left with returned >= expected && htmlLoaded
\* true and the completion branch of done() not entered: every step that makes
\* the predicate true evaluates it.
C18_NeverStuckCollecting ==
  \A r \in Reqs :
    (returned[r] >= expected[r] /\ htmlLoaded[r]) => hist[r].completions >= 1

C18_Witness ==
  \E r \in Reqs :
    /\ hist[r].html >= 1 /\ returned[r] = expected[r] /\ htmlLoaded[r]
    /\ statics[r] = 0 /\ derived[r] = 0 /\ ~html[r]
    /\ hist[r].completions = 1

\* C19: when the lookup finds no cached file (the directory is there and
\* fresh but holds no converted file) the result is a miss and the handler
\* starts the cold resolution for the request.
C19_NoFileIsMiss ==
  \A r \in Reqs :
    (hist[r].fresh /\ Present = {} /\ pc[r] \in {"hit", "cold"})
      => (Cold(r) /\ hist[r].cold = 1)

\* C20: the conversion of the payload at position p of favicons writes to the
\* output path carrying index p, so two payloads of one job never share an
\* output index.
C20_ConversionOwnIndex ==
  \A r \in Reqs : \A job \in Pending(convs[r]) : job[2] = job[1]

\* bestFit after the scan has looked at the first n entries of listing fs
RunningBest(fs, sz, n) ==
  BestScan(SubSeq(fs, 1, n), sz, 1, Null, InitialBestFitDifference).bestFit

\* entry i of the probed listing has a larger difference than the running
\* best, which is already oversized
LargerThanOversizedBest(i) ==
  LET before == RunningBest(probe.listing, probe.size, i - 1)
  IN /\ before # Null
     /\ before[2] - probe.size > 0
     /\ probe.listing[i][2] - probe.size > before[2] - probe.size

\* C21 as stated: once the running best is oversized, a later entry with a
\* larger difference replaces it.
C21_LargerOversizedReplaces ==
  (probe.scanned /\ ~HasExact(probe.listing, probe.size))
    => \A i \in 2..Len(probe.listing) :
         LargerThanOversizedBest(i)
           => RunningBest(probe.listing, probe.size, i) = probe.listing[i]

\* C21 amended: once the running best is oversized, a later entry with a
\* larger difference is skipped and the running best is kept.
C21_LargerOversizedSkipped ==
  (probe.scanned /\ ~HasExact(probe.listing, probe.size))
    => \A i \in 2..Len(probe.listing) :
         LargerThanOversizedBest(i)
           => RunningBest(probe.listing, probe.size, i)
                = RunningBest(probe.listing, probe.size, i - 1)

C21_Witness ==
  /\ probe.scanned /\ ~HasExact(probe.listing, probe.size)
  /\ Len(probe.listing) = 3
  /\ LargerThanOversizedBest(3)
  /\ probe.file = probe.listing[2]

\* C22: the fetch re-issued after a redirect goes to the Location resolved
\* like a candidate href: "//..." gets the protocol, "/..." gets the root
\* origin, anything else is used as given.
C22_RedirectResolved ==
  probe.followed
    => probe.url = RequestedUrl(fixupUrl(probe.location, RootOrigin, ProtocolOfRoot))

\* C23: every request ends its response at most once, on every path and in
\* every interleaving.
C23_EndedAtMostOnce == \A r \in Reqs : ended[r] <= 1

\* positions of the oversized entries of listing q
Oversized(q, sz) == {i \in 1..Len(q) : q[i][2] > sz}

\* the first oversized entry in listing order, else the entry with the
\* largest width, else none
FirstOversizedElseLargest(q, sz) ==
  IF Oversized(q, sz) # {}
  THEN q[CHOOSE i \in Oversized(q, sz) : \A j \in Oversized(q, sz) : i <= j]
  ELSE IF q = <<>> THEN Null
  ELSE q[CHOOSE i \in 1..Len(q) : \A j \in 1..Len(q) : q[j][2] <= q[i][2]]

\* C24: for a listing without an exact-width entry the scan returns the first
\* oversized entry in listing order if there is one, otherwise the undersized
\* entry with the largest width; an oversized running best is never replaced
\* by a later entry.
C24_FirstOversizedElseLargest ==
  (probe.scanned /\ ~HasExact(probe.listing, probe.size))
    => /\ probe.file = FirstOversizedElseLargest(probe.listing, probe.size)
       /\ \A i \in 2..Len(probe.listing) :
            LET before == RunningBest(probe.listing, probe.size, i - 1)
            IN (before # Null /\ before[2] > probe.size)
                 => RunningBest(probe.listing, probe.size, i) = before

C24_Witness ==
  /\ probe.scanned /\ ~HasExact(probe.listing, probe.size)
  /\ Len(probe.listing) = 3
  /\ probe.listing[1][2] < probe.size
  /\ probe.listing[2][2] > probe.size
  /\ probe.listing[3][2] < probe.size /\ probe.listing[3][2] > probe.listing[1][2]
  /\ probe.file = probe.listing[2]

\* C25: when every fetch, scratch write and conversion eventually calls back,
\* every request that reached the cache check eventually ends its response
\* (unless the process has ended).
C25_EveryRequestAnswered ==
  \A r \in Reqs : (pc[r] = "exists") ~> (ended[r] >= 1 \/ crashed)

====
